---- MODULE Spec2Model ----
(***************************************************************************)
(* Model of the weather-by-CEP HTTP service (src/main.go).                 *)
(*                                                                         *)
(* Strings are sequences of characters; a character is a one-element       *)
(* token.  The token "u0663" stands for a non-ASCII decimal digit          *)
(* (ARABIC-INDIC DIGIT THREE), which UTF-8 encodes in two bytes.           *)
(* Fixed pieces of a URL ("/ws/", "/json/", ...) are single tokens.        *)
(***************************************************************************)
EXTENDS Integers, Sequences, FiniteSets, TLC

VARIABLES
    pc,            \* position of the request: idle, cep_https, cep_http, weather, done
                   \* (cep_* and temp_* in the specifications of the pure functions)
    method,        \* r.Method
    path,          \* r.URL.Path
    cep,           \* the raw code: path with the prefix trimmed
    formattedCEP,  \* searchCEP's formattedCEP
    valid,         \* result of isValidCEP (pure-function specification)
    formattedTwice,\* formatCEP applied to formattedCEP (pure-function specification)
    calls,         \* outbound requests issued through httpClient, in order
    answers,       \* what each outbound request returned, in order
    cepData,       \* the record searchCEP returned, or Nil
    tempCStr,      \* getWeatherData's tempCStr
    weather,       \* the WeatherData getWeatherData returned, or Nil
    resp,          \* the ResponseWriter: header, status, body
    httpClient     \* the shared outbound client configuration

vars == <<pc, method, path, cep, formattedCEP, valid, formattedTwice, calls,
          answers, cepData, tempCStr, weather, resp, httpClient>>

\* The absent value of a record-valued variable (a nil pointer).
Nil == [k |-> "nil"]

(***************************************************************************)
(* Bounds of the model.                                                    *)
(***************************************************************************)
MaxCodeLen == 9
MaxOdd == 2
MaxTempLen == 3
MaxEntries == 2

(***************************************************************************)
(* Characters.                                                             *)
(***************************************************************************)
AsciiDigits == {"0", "1", "2", "3", "4", "5", "6", "7", "8", "9"}

\* Digits that occur in generated raw codes.
InputDigits == {"1"}

\* Other characters that occur in generated raw codes.
OddChars == {"-", " ", "a", "u0663"}

\* Number of bytes of a character in UTF-8 (Go's len counts bytes).
ByteWidth(c) == IF c = "u0663" THEN 2 ELSE 1

RECURSIVE ByteLen(_)
ByteLen(s) == IF s = <<>> THEN 0 ELSE ByteWidth(Head(s)) + ByteLen(Tail(s))

\* strings.ReplaceAll(s, old, new) for a one-character old.
RECURSIVE ReplaceAll(_, _, _)
ReplaceAll(s, old, new) ==
    IF s = <<>> THEN <<>>
    ELSE (IF Head(s) = old THEN new ELSE <<Head(s)>>) \o ReplaceAll(Tail(s), old, new)

\* strings.Replace(s, old, new, 1): only the first occurrence.
RECURSIVE ReplaceFirst(_, _, _)
ReplaceFirst(s, old, new) ==
    IF s = <<>> THEN <<>>
    ELSE IF Head(s) = old THEN new \o Tail(s)
    ELSE <<Head(s)>> \o ReplaceFirst(Tail(s), old, new)

(***************************************************************************)
(* The postal-code validator and normalizer.                               *)
(***************************************************************************)
CEPLen == 8
RegexCount == 8

\* regexp.MatchString(`^\d{8}$`, s): \d is ASCII-only in Go's RE2 syntax and
\* $ matches at the end of the text only.
MatchDigits(s) ==
    /\ Len(s) = RegexCount
    /\ \A i \in 1..Len(s) : s[i] \in AsciiDigits

isValidCEP_LengthOnly(c) ==
    ByteLen(ReplaceAll(ReplaceAll(c, "-", <<>>), " ", <<>>)) = CEPLen

isValidCEP(c) ==
    LET c1 == ReplaceAll(c, "-", <<>>)
        c2 == ReplaceAll(c1, " ", <<>>)
    IN  IF ByteLen(c2) # CEPLen THEN FALSE ELSE MatchDigits(c2)

formatCEP_FirstOnly(c) == ReplaceFirst(ReplaceFirst(c, "-", <<>>), " ", <<>>)

formatCEP(c) == ReplaceAll(ReplaceAll(c, "-", <<>>), " ", <<>>)

(***************************************************************************)
(* Raw codes: strings of at most MaxCodeLen characters of which at most    *)
(* MaxOdd are not digits.                                                  *)
(***************************************************************************)
RECURSIVE StrsOfLen(_, _)
StrsOfLen(n, k) ==
    IF n = 0 THEN {<<>>}
    ELSE {Append(s, d) : s \in StrsOfLen(n - 1, k), d \in InputDigits}
         \cup (IF k = 0 THEN {}
               ELSE {Append(s, c) : s \in StrsOfLen(n - 1, k - 1), c \in OddChars})

RawCodes == UNION {StrsOfLen(n, MaxOdd) : n \in 0..MaxCodeLen}

(***************************************************************************)
(* Specification of the pure functions on postal codes: a raw code is      *)
(* drawn, then validated, normalized, and normalized again.                *)
(***************************************************************************)
Unused ==
    /\ method = "" /\ path = <<>> /\ calls = <<>> /\ answers = <<>>
    /\ cepData = Nil /\ tempCStr = <<>> /\ weather = Nil /\ resp = Nil
    /\ httpClient = Nil

InitCEP ==
    /\ pc = "cep_in"
    /\ cep \in RawCodes
    /\ formattedCEP = <<>> /\ valid = FALSE /\ formattedTwice = <<>>
    /\ Unused

Validate ==
    /\ pc = "cep_in"
    /\ valid' = isValidCEP(cep)
    /\ pc' = "cep_validated"
    /\ UNCHANGED <<method, path, cep, formattedCEP, formattedTwice, calls, answers,
                   cepData, tempCStr, weather, resp, httpClient>>

Format ==
    /\ pc = "cep_validated"
    /\ formattedCEP' = formatCEP(cep)
    /\ pc' = "cep_formatted"
    /\ UNCHANGED <<method, path, cep, valid, formattedTwice, calls, answers,
                   cepData, tempCStr, weather, resp, httpClient>>

FormatAgain ==
    /\ pc = "cep_formatted"
    /\ formattedTwice' = formatCEP(formattedCEP)
    /\ pc' = "cep_done"
    /\ UNCHANGED <<method, path, cep, valid, formattedCEP, calls, answers,
                   cepData, tempCStr, weather, resp, httpClient>>

NextCEP == Validate \/ Format \/ FormatAgain

SpecCEP == InitCEP /\ [][NextCEP]_vars

(***************************************************************************)
(* Floating-point values.  A finite float64 is modelled by the decimal it  *)
(* was parsed from, as an integer count of 1/Scale units; NaN and the two  *)
(* infinities are values of their own.  Scale leaves one more decimal      *)
(* place than any generated string has, so that the division by 5 below is *)
(* exact in the model.                                                     *)
(***************************************************************************)
RECURSIVE Pow10(_)
Pow10(n) == IF n = 0 THEN 1 ELSE 10 * Pow10(n - 1)

Scale == Pow10(MaxTempLen)

Fin(v) == [k |-> "fin", v |-> v]
NaN == [k |-> "nan", v |-> 0]
Inf(sign) == [k |-> "inf", v |-> sign]

IsFinite(x) == x.k = "fin"

\* x * n, x / n for a positive integer constant n, and x + c for a finite
\* constant c (in 1/Scale units), as float64 arithmetic propagates NaN and Inf.
FMul(x, n) == IF IsFinite(x) THEN Fin(x.v * n) ELSE x
FDiv(x, n) == IF IsFinite(x) THEN Fin(x.v \div n) ELSE x
FAdd(x, c) == IF IsFinite(x) THEN Fin(x.v + c) ELSE x

(***************************************************************************)
(* strconv.ParseFloat(s, 64) on strings over TempAlphabet (no exponent,    *)
(* hexadecimal prefix or underscore occurs in them).                       *)
(***************************************************************************)
TempAlphabet == {"2", "5", "-", ".", "N", "a", "n", "I", "f"}

RECURSIVE AllStrs(_, _)
AllStrs(n, alphabet) ==
    IF n = 0 THEN {<<>>}
    ELSE {Append(s, c) : s \in AllStrs(n - 1, alphabet), c \in alphabet}

TempStrs == UNION {AllStrs(n, TempAlphabet) : n \in 0..MaxTempLen}

DigitVal(c) ==
    CASE c = "0" -> 0 [] c = "1" -> 1 [] c = "2" -> 2 [] c = "3" -> 3 [] c = "4" -> 4
      [] c = "5" -> 5 [] c = "6" -> 6 [] c = "7" -> 7 [] c = "8" -> 8 [] c = "9" -> 9

\* ASCII lower-casing of the letters that occur.
Lower(c) == CASE c = "N" -> "n" [] c = "I" -> "i" [] OTHER -> c

RECURSIVE commonPrefixLenIgnoreCase(_, _)
commonPrefixLenIgnoreCase(s, prefix) ==
    IF s = <<>> \/ prefix = <<>> \/ Lower(Head(s)) # Head(prefix) THEN 0
    ELSE 1 + commonPrefixLenIgnoreCase(Tail(s), Tail(prefix))

\* strconv's special: "NaN" unsigned, "Inf" and "Infinity" optionally signed,
\* ignoring case; n is the number of characters consumed.
special(s) ==
    LET no == [ok |-> FALSE, f |-> NaN, n |-> 0]
    IN  IF s = <<>> THEN no
        ELSE IF s[1] \in {"+", "-", "i", "I"} THEN
            LET signed == s[1] \in {"+", "-"}
                sign == IF s[1] = "-" THEN -1 ELSE 1
                nsign == IF signed THEN 1 ELSE 0
                rest == IF signed THEN Tail(s) ELSE s
                n0 == commonPrefixLenIgnoreCase(rest, <<"i", "n", "f", "i", "n", "i", "t", "y">>)
                n == IF 3 < n0 /\ n0 < 8 THEN 3 ELSE n0
            IN  IF n = 3 \/ n = 8 THEN [ok |-> TRUE, f |-> Inf(sign), n |-> nsign + n]
                ELSE no
        ELSE IF s[1] \in {"n", "N"} THEN
            IF commonPrefixLenIgnoreCase(s, <<"n", "a", "n">>) = 3
            THEN [ok |-> TRUE, f |-> NaN, n |-> 3]
            ELSE no
        ELSE no

\* strconv's readFloat loop over the digits and the decimal point, from
\* position i: mantissa, whether a dot and a digit were seen, digits after
\* the dot, and the position where the loop stopped.
RECURSIVE readDigits(_, _, _, _, _, _)
readDigits(s, i, mant, sawdot, sawdigits, frac) ==
    IF i > Len(s) THEN
        [n |-> i - 1, mant |-> mant, sawdigits |-> sawdigits, frac |-> frac]
    ELSE IF s[i] = "." /\ ~sawdot THEN
        readDigits(s, i + 1, mant, TRUE, sawdigits, frac)
    ELSE IF s[i] \in AsciiDigits THEN
        readDigits(s, i + 1, mant * 10 + DigitVal(s[i]), sawdot, TRUE,
                   IF sawdot THEN frac + 1 ELSE frac)
    ELSE [n |-> i - 1, mant |-> mant, sawdigits |-> sawdigits, frac |-> frac]

readFloat(s) ==
    LET signed == s # <<>> /\ s[1] \in {"+", "-"}
        sign == IF signed /\ s[1] = "-" THEN -1 ELSE 1
        r == readDigits(s, IF signed THEN 2 ELSE 1, 0, FALSE, FALSE, 0)
    IN  IF s = <<>> \/ ~r.sawdigits THEN [ok |-> FALSE, f |-> NaN, n |-> 0]
        ELSE [ok |-> TRUE,
              f |-> Fin(sign * r.mant * Pow10(MaxTempLen - r.frac)),
              n |-> r.n]

\* ParseFloat: the special values first, then a number; the whole string
\* must be consumed.
ParseFloat(s) ==
    LET sp == special(s)
        p == IF sp.ok THEN sp ELSE readFloat(s)
    IN  IF p.ok /\ p.n = Len(s) THEN [ok |-> TRUE, f |-> p.f]
        ELSE [ok |-> FALSE, f |-> NaN]

(***************************************************************************)
(* The temperature conversions of getWeatherData.                          *)
(***************************************************************************)
CelsiusToFahrenheit(tempC) == FAdd(FDiv(FMul(tempC, 9), 5), 32 * Scale)

CelsiusToKelvin_Rounded(tempC) == FAdd(tempC, 273 * Scale)

CelsiusToKelvin(tempC) == FAdd(tempC, (27315 * Scale) \div 100)

\* Lines 193-209: the record built from the Celsius string, or Nil when
\* ParseFloat reports an error.
convertTemperature(s) ==
    LET p == ParseFloat(s)
    IN  IF ~p.ok THEN Nil
        ELSE [temp_C |-> p.f,
              temp_F |-> CelsiusToFahrenheit(p.f),
              temp_K |-> CelsiusToKelvin(p.f)]

(***************************************************************************)
(* The response writer.  encoding/json refuses NaN and the infinities      *)
(* (UnsupportedValueError) and then writes nothing; the handler ignores    *)
(* the error Encode returns.                                               *)
(***************************************************************************)
ContentTypeJSON == "application/json"

NoBody == [kind |-> "none"]

encodeErrorResponse(message) == [kind |-> "object", message |-> message]

encodeWeatherData(w) ==
    IF IsFinite(w.temp_C) /\ IsFinite(w.temp_F) /\ IsFinite(w.temp_K)
    THEN [kind |-> "object", temp_C |-> w.temp_C, temp_F |-> w.temp_F, temp_K |-> w.temp_K]
    ELSE NoBody

writeError(code, message) ==
    [contentType |-> ContentTypeJSON, status |-> code, body |-> encodeErrorResponse(message)]

writeWeather(w) ==
    [contentType |-> ContentTypeJSON, status |-> 200, body |-> encodeWeatherData(w)]

(***************************************************************************)
(* Specification of the temperature conversion: a Celsius string is drawn, *)
(* parsed and converted, and the record is written as a 200 response.      *)
(***************************************************************************)
InitTemp ==
    /\ pc = "temp_in"
    /\ tempCStr \in TempStrs
    /\ weather = Nil /\ resp = Nil
    /\ method = "" /\ path = <<>> /\ cep = <<>> /\ formattedCEP = <<>> /\ valid = FALSE
    /\ formattedTwice = <<>> /\ calls = <<>> /\ answers = <<>> /\ cepData = Nil
    /\ httpClient = Nil

ConvertTemp ==
    /\ pc = "temp_in"
    /\ weather' = convertTemperature(tempCStr)
    /\ pc' = IF weather' = Nil THEN "temp_failed" ELSE "temp_converted"
    /\ UNCHANGED <<method, path, cep, formattedCEP, valid, formattedTwice, calls,
                   answers, cepData, tempCStr, resp, httpClient>>

WriteTemp ==
    /\ pc = "temp_converted"
    /\ resp' = writeWeather(weather)
    /\ pc' = "temp_done"
    /\ UNCHANGED <<method, path, cep, formattedCEP, valid, formattedTwice, calls,
                   answers, cepData, tempCStr, weather, httpClient>>

NextTemp == ConvertTemp \/ WriteTemp

SpecTemp == InitTemp /\ [][NextTemp]_vars

(***************************************************************************)
(* The request handler and the two resolvers.                              *)
(***************************************************************************)
Methods == {"GET", "POST"}

\* "/weatherbycep/"
PathPrefix == <<"/", "w", "e", "a", "t", "h", "e", "r", "b", "y", "c", "e", "p", "/">>

HasPrefix(s, p) == Len(s) >= Len(p) /\ SubSeq(s, 1, Len(p)) = p

TrimPrefix(s, p) == IF HasPrefix(s, p) THEN SubSeq(s, Len(p) + 1, Len(s)) ELSE s

OddCount(c) == Cardinality({i \in 1..Len(c) : c[i] \notin InputDigits})

\* Raw codes of the requests: at most one character that is not a digit.
MainCodes == {c \in RawCodes : OddCount(c) <= 1}

\* Request paths: the route followed by a raw code, the route without its
\* final slash followed by a raw code, and "/invalid".
Paths ==
    {PathPrefix \o c : c \in MainCodes}
    \cup {SubSeq(PathPrefix, 1, Len(PathPrefix) - 1) \o c : c \in MainCodes}
    \cup {<<"/", "i", "n", "v", "a", "l", "i", "d">>}

CustomError(code, message) == [k |-> "error", Code |-> code, Message |-> message]

InternalError == CustomError(500, "internal server error")

\* The shared client, lines 18-30.
HttpClientConfig ==
    [k |-> "client", Timeout |-> 30, InsecureSkipVerify |-> FALSE, MinVersion |-> "TLS12",
     MaxIdleConns |-> 10, IdleConnTimeout |-> 30, DisableCompression |-> FALSE,
     ForceAttemptHTTP2 |-> TRUE]

(***************************************************************************)
(* What an outbound GET returns: a transport error (err # "", a timeout of *)
(* the client included) or a response with a status and a body.  A body is *)
(* unreadable (io.ReadAll fails), malformed (json.Unmarshal fails: invalid *)
(* JSON or a field of the wrong type) or a JSON object.                    *)
(***************************************************************************)
TransportErrors == {"dial", "timeout"}

Unreadable == [kind |-> "unreadable"]
Malformed == [kind |-> "malformed"]

\* The "erro" member of the lookup's JSON object: absent, or a JSON value.
ErroJSON == {"absent", "null", "false", "true", "\"true\""}

Localidades == {<<>>, <<"R", "i", "o">>, <<"S", "u00E3", "o", " ", "P">>}
UFs == {<<"S", "P">>, <<"R", "J">>}

LocationObjects ==
    {[kind |-> "json", erro |-> e, localidade |-> l, uf |-> u] :
        e \in ErroJSON, l \in Localidades, u \in UFs}

LocationAnswers ==
    {[err |-> e, status |-> 0, body |-> NoBody] : e \in TransportErrors}
    \cup {[err |-> "", status |-> 200, body |-> b] :
            b \in {Unreadable, Malformed} \cup LocationObjects}
    \cup {[err |-> "", status |-> 404, body |-> b] :
            b \in {Malformed, [kind |-> "json", erro |-> "absent",
                               localidade |-> <<"R", "i", "o">>, uf |-> <<"R", "J">>]}}

\* Celsius strings of the weather answers.
MainTemps ==
    {<<>>, <<"2", "5">>, <<"-", "2", ".", "5">>, <<"N", "a", "N">>, <<"I", "n", "f">>, <<"a">>}

\* An entry of current_condition: its temp_C member may be absent.
ConditionEntries ==
    {[present |-> FALSE, temp_C |-> <<>>]}
    \cup {[present |-> TRUE, temp_C |-> s] : s \in MainTemps}

RECURSIVE ListsOfLen(_, _)
ListsOfLen(n, S) ==
    IF n = 0 THEN {<<>>}
    ELSE {Append(l, e) : l \in ListsOfLen(n - 1, S), e \in S}

\* The weather's JSON object: current_condition absent, or a list.
WeatherObjects ==
    {[kind |-> "json", hasList |-> FALSE, current_condition |-> <<>>]}
    \cup {[kind |-> "json", hasList |-> TRUE, current_condition |-> l] :
            l \in UNION {ListsOfLen(n, ConditionEntries) : n \in 0..MaxEntries}}

WeatherAnswers ==
    {[err |-> e, status |-> 0, body |-> NoBody] : e \in TransportErrors}
    \cup {[err |-> "", status |-> 200, body |-> b] :
            b \in {Unreadable, Malformed} \cup WeatherObjects}
    \cup {[err |-> "", status |-> 503, body |-> b] :
            b \in {Malformed, [kind |-> "json", hasList |-> TRUE,
                               current_condition |->
                                   <<[present |-> TRUE, temp_C |-> <<"2", "5">>]>>]}}

(***************************************************************************)
(* searchCEP.                                                              *)
(***************************************************************************)
\* Line 100: the code the lookup URLs are built from.
lookupCode_Raw(c) == c

lookupCode(c) == formatCEP(c)

\* Lines 103 and 110: fmt.Sprintf("<scheme>://viacep.com.br/ws/%s/json/", code).
cepURL(scheme, code) ==
    [scheme |-> scheme, host |-> "viacep.com.br",
     path |-> <<"/ws/">> \o code \o <<"/json/">>, query |-> ""]

\* Lines 106-107 and 111-112: err != nil.
transportFailed_OrStatus(ans) == ans.err # "" \/ ans.status # 200

transportFailed(ans) == ans.err # ""

\* json.Unmarshal of the "erro" member into an interface{}: an absent member
\* and null leave it nil; any other JSON value makes it non-nil.
unmarshalErro(j) == IF j \in {"absent", "null"} THEN "nil" ELSE j

\* Lines 119-145: from a received response to (*CEPData, *CustomError).  Of
\* CEPData only Localidade, UF and Erro are read afterwards.
decodeCEP(ans) ==
    IF ans.status # 200 THEN [data |-> Nil, err |-> InternalError]
    ELSE IF ans.body.kind = "unreadable" THEN [data |-> Nil, err |-> InternalError]
    ELSE IF ans.body.kind = "malformed" THEN [data |-> Nil, err |-> InternalError]
    ELSE LET d == [k |-> "cep", Localidade |-> ans.body.localidade, UF |-> ans.body.uf,
                   Erro |-> unmarshalErro(ans.body.erro)]
         IN  IF d.Erro # "nil"
             THEN [data |-> Nil, err |-> CustomError(404, "can not find zipcode")]
             ELSE [data |-> d, err |-> Nil]

(***************************************************************************)
(* getWeatherData.                                                         *)
(***************************************************************************)
\* url.QueryEscape, character by character: unreserved characters stay,
\* a space becomes "+", everything else is percent-encoded.
QueryEscapeChar(c) ==
    CASE c = " " -> <<"+">>
      [] c = "+" -> <<"%2B">>
      [] c = "," -> <<"%2C">>
      [] c = "u00E3" -> <<"%C3", "%A3">>
      [] OTHER -> <<c>>

RECURSIVE QueryEscape(_)
QueryEscape(s) == IF s = <<>> THEN <<>> ELSE QueryEscapeChar(Head(s)) \o QueryEscape(Tail(s))

weatherURL_StateOnly(city, state) ==
    [scheme |-> "https", host |-> "wttr.in",
     path |-> <<"/">> \o QueryEscape(ReplaceAll(state, " ", <<"+">>) \o <<",">>
                                    \o ReplaceAll(state, " ", <<"+">>) \o <<",", "Brazil">>),
     query |-> "format=j1"]

\* Lines 151-156.
weatherURL(city, state) ==
    LET cityFormatted == ReplaceAll(city, " ", <<"+">>)
        stateFormatted == ReplaceAll(state, " ", <<"+">>)
        location == cityFormatted \o <<",">> \o stateFormatted \o <<",", "Brazil">>
    IN  [scheme |-> "https", host |-> "wttr.in",
         path |-> <<"/">> \o QueryEscape(location), query |-> "format=j1"]

\* Lines 158-209: from what the GET returned to (*WeatherData, *CustomError);
\* str is tempCStr when the code got as far as reading it.
decodeWeather(ans) ==
    IF ans.err # "" THEN [data |-> Nil, err |-> InternalError, str |-> <<>>]
    ELSE IF ans.status # 200 THEN [data |-> Nil, err |-> InternalError, str |-> <<>>]
    ELSE IF ans.body.kind = "unreadable" THEN [data |-> Nil, err |-> InternalError, str |-> <<>>]
    ELSE IF ans.body.kind = "malformed" THEN [data |-> Nil, err |-> InternalError, str |-> <<>>]
    ELSE IF Len(ans.body.current_condition) = 0
         THEN [data |-> Nil, err |-> CustomError(500, "weather data not available"),
               str |-> <<>>]
    ELSE LET s == ans.body.current_condition[1].temp_C
             w == convertTemperature(s)
         IN  IF w = Nil THEN [data |-> Nil, err |-> InternalError, str |-> s]
             ELSE [data |-> w, err |-> Nil, str |-> s]

(***************************************************************************)
(* weatherByCEPHandler.                                                    *)
(***************************************************************************)
\* The handler up to its first outbound call: the response of the first
\* failing check, or the first lookup request.
handlerEntry_PathFirst(m, p) ==
    LET c == TrimPrefix(p, PathPrefix)
        none == [cep |-> <<>>, formatted |-> <<>>, call |-> Nil, resp |-> Nil]
    IN  IF ~HasPrefix(p, PathPrefix)
            THEN [none EXCEPT !.resp = writeError(404, "endpoint not found")]
        ELSE IF m # "GET"
            THEN [none EXCEPT !.resp = writeError(405, "method not allowed")]
        ELSE IF c = <<>>
            THEN [none EXCEPT !.cep = c, !.resp = writeError(400, "cep parameter is required")]
        ELSE IF ~isValidCEP(c)
            THEN [none EXCEPT !.cep = c, !.resp = writeError(422, "invalid zipcode")]
        ELSE [none EXCEPT !.cep = c, !.formatted = lookupCode(c),
                          !.call = cepURL("https", lookupCode(c))]

\* Lines 213-241 and 93-106.
handlerEntry(m, p) ==
    LET c == TrimPrefix(p, PathPrefix)
        none == [cep |-> <<>>, formatted |-> <<>>, call |-> Nil, resp |-> Nil]
    IN  IF m # "GET"
            THEN [none EXCEPT !.resp = writeError(405, "method not allowed")]
        ELSE IF ~HasPrefix(p, PathPrefix)
            THEN [none EXCEPT !.resp = writeError(404, "endpoint not found")]
        ELSE IF c = <<>>
            THEN [none EXCEPT !.cep = c, !.resp = writeError(400, "cep parameter is required")]
        ELSE IF ~isValidCEP(c)
            THEN [none EXCEPT !.cep = c, !.resp = writeError(422, "invalid zipcode")]
        ELSE [none EXCEPT !.cep = c, !.formatted = lookupCode(c),
                          !.call = cepURL("https", lookupCode(c))]

Init ==
    /\ pc = "idle"
    /\ method = "" /\ path = <<>> /\ cep = <<>> /\ formattedCEP = <<>>
    /\ valid = FALSE /\ formattedTwice = <<>>
    /\ calls = <<>> /\ answers = <<>>
    /\ cepData = Nil /\ tempCStr = <<>> /\ weather = Nil /\ resp = Nil
    /\ httpClient = HttpClientConfig

\* A request arrives and the handler runs up to its first outbound call.
Accept ==
    /\ pc = "idle"
    /\ \E m \in Methods, p \in Paths :
        LET h == handlerEntry(m, p)
        IN  /\ method' = m
            /\ path' = p
            /\ cep' = h.cep
            /\ formattedCEP' = h.formatted
            /\ resp' = h.resp
            /\ calls' = IF h.call = Nil THEN <<>> ELSE <<h.call>>
            /\ pc' = IF h.call = Nil THEN "done" ELSE "cep_https"
    /\ UNCHANGED <<valid, formattedTwice, answers, cepData, tempCStr, weather, httpClient>>

\* Lines 119-146 and 241-250 once a lookup response is in: the error is
\* written, or the weather request is issued.
LocationDone(ans) ==
    LET r == decodeCEP(ans)
    IN  IF r.err # Nil
        THEN /\ resp' = writeError(r.err.Code, r.err.Message)
             /\ pc' = "done"
             /\ UNCHANGED <<calls, cepData>>
        ELSE /\ cepData' = r.data
             /\ calls' = Append(calls, weatherURL(r.data.Localidade, r.data.UF))
             /\ pc' = "weather"
             /\ UNCHANGED resp

\* The HTTPS lookup returns: on a transport error the HTTP lookup is issued.
CepHttpsAnswer ==
    /\ pc = "cep_https"
    /\ \E ans \in LocationAnswers :
        /\ answers' = Append(answers, ans)
        /\ IF transportFailed(ans)
           THEN /\ calls' = Append(calls, cepURL("http", formattedCEP))
                /\ pc' = "cep_http"
                /\ UNCHANGED <<cepData, resp>>
           ELSE LocationDone(ans)
    /\ UNCHANGED <<method, path, cep, formattedCEP, valid, formattedTwice, tempCStr,
                   weather, httpClient>>

\* The HTTP lookup returns: a transport error ends the request.
CepHttpAnswer ==
    /\ pc = "cep_http"
    /\ \E ans \in LocationAnswers :
        /\ answers' = Append(answers, ans)
        /\ IF transportFailed(ans)
           THEN /\ resp' = writeError(InternalError.Code, InternalError.Message)
                /\ pc' = "done"
                /\ UNCHANGED <<calls, cepData>>
           ELSE LocationDone(ans)
    /\ UNCHANGED <<method, path, cep, formattedCEP, valid, formattedTwice, tempCStr,
                   weather, httpClient>>

\* The weather request returns and the handler writes its response.
WeatherAnswer ==
    /\ pc = "weather"
    /\ \E ans \in WeatherAnswers :
        LET r == decodeWeather(ans)
        IN  /\ answers' = Append(answers, ans)
            /\ tempCStr' = r.str
            /\ weather' = r.data
            /\ resp' = IF r.err # Nil THEN writeError(r.err.Code, r.err.Message)
                       ELSE writeWeather(r.data)
            /\ pc' = "done"
    /\ UNCHANGED <<method, path, cep, formattedCEP, valid, formattedTwice, calls,
                   cepData, httpClient>>

Next == Accept \/ CepHttpsAnswer \/ CepHttpAnswer \/ WeatherAnswer

Spec == Init /\ [][Next]_vars

\* The handler's goroutine keeps running, and httpClient.Timeout bounds every
\* outbound call: a call that was issued returns a response or an error.
FairSpec ==
    /\ Spec
    /\ WF_vars(CepHttpsAnswer) /\ WF_vars(CepHttpAnswer) /\ WF_vars(WeatherAnswer)

(***************************************************************************)
(* Concurrent requests.  The server runs one goroutine per request; here   *)
(* every per-request variable is a function of the request, and the steps  *)
(* of the requests interleave at their outbound calls.  httpClient is the  *)
(* one value the goroutines share.                                         *)
(***************************************************************************)
NumReqs == 2

Reqs == 1..NumReqs

\* The requests of TestWeatherByCEPHandler.
ConcRequests ==
    {[m |-> "GET", p |-> PathPrefix \o <<"0", "1", "3", "1", "0", "-", "1", "0", "0">>],
     [m |-> "GET", p |-> PathPrefix \o <<"0", "0", "0", "0", "0", "0", "0", "0">>],
     [m |-> "GET", p |-> PathPrefix \o <<"1", "2", "3">>],
     [m |-> "POST", p |-> PathPrefix \o <<"0", "1", "3", "1", "0", "1", "0", "0">>],
     [m |-> "GET", p |-> <<"/", "i", "n", "v", "a", "l", "i", "d">>]}

ConcLocationAnswers ==
    {[err |-> "timeout", status |-> 0, body |-> NoBody],
     [err |-> "", status |-> 404, body |-> Malformed],
     [err |-> "", status |-> 200,
      body |-> [kind |-> "json", erro |-> "true", localidade |-> <<>>, uf |-> <<>>]],
     [err |-> "", status |-> 200,
      body |-> [kind |-> "json", erro |-> "absent",
                localidade |-> <<"S", "u00E3", "o", " ", "P">>, uf |-> <<"S", "P">>]]}

ConcWeatherAnswers ==
    {[err |-> "timeout", status |-> 0, body |-> NoBody],
     [err |-> "", status |-> 200,
      body |-> [kind |-> "json", hasList |-> TRUE,
                current_condition |-> <<[present |-> TRUE, temp_C |-> <<"2", "5">>]>>]]}

\* A package-level formattedCEP: the one the latest request wrote.
formattedCEPOf_Global(i) ==
    formattedCEP[CHOOSE j \in Reqs :
                    /\ formattedCEP[j] # <<>>
                    /\ \A k \in Reqs : formattedCEP[k] # <<>> => k <= j]

\* Line 100: formattedCEP is a local variable of the searchCEP call of
\* request i.
formattedCEPOf(i) == formattedCEP[i]

InitConc ==
    /\ pc = [i \in Reqs |-> "idle"]
    /\ method = [i \in Reqs |-> ""]
    /\ path = [i \in Reqs |-> <<>>]
    /\ cep = [i \in Reqs |-> <<>>]
    /\ formattedCEP = [i \in Reqs |-> <<>>]
    /\ calls = [i \in Reqs |-> <<>>]
    /\ answers = [i \in Reqs |-> <<>>]
    /\ cepData = [i \in Reqs |-> Nil]
    /\ tempCStr = [i \in Reqs |-> <<>>]
    /\ weather = [i \in Reqs |-> Nil]
    /\ resp = [i \in Reqs |-> Nil]
    /\ valid = FALSE /\ formattedTwice = <<>>
    /\ httpClient = HttpClientConfig

\* Request i arrives and its handler runs up to its first outbound call.
ConcAccept(i) ==
    /\ pc[i] = "idle"
    /\ \E q \in ConcRequests :
        LET h == handlerEntry(q.m, q.p)
        IN  /\ method' = [method EXCEPT ![i] = q.m]
            /\ path' = [path EXCEPT ![i] = q.p]
            /\ cep' = [cep EXCEPT ![i] = h.cep]
            /\ formattedCEP' = [formattedCEP EXCEPT ![i] = h.formatted]
            /\ resp' = [resp EXCEPT ![i] = h.resp]
            /\ calls' = [calls EXCEPT ![i] = IF h.call = Nil THEN <<>> ELSE <<h.call>>]
            /\ pc' = [pc EXCEPT ![i] = IF h.call = Nil THEN "done" ELSE "cep_https"]
    /\ UNCHANGED <<valid, formattedTwice, answers, cepData, tempCStr, weather, httpClient>>

\* LocationDone for request i.
ConcLocationDone(i, ans) ==
    LET r == decodeCEP(ans)
    IN  IF r.err # Nil
        THEN /\ resp' = [resp EXCEPT ![i] = writeError(r.err.Code, r.err.Message)]
             /\ pc' = [pc EXCEPT ![i] = "done"]
             /\ UNCHANGED <<calls, cepData>>
        ELSE /\ cepData' = [cepData EXCEPT ![i] = r.data]
             /\ calls' = [calls EXCEPT
                            ![i] = Append(@, weatherURL(r.data.Localidade, r.data.UF))]
             /\ pc' = [pc EXCEPT ![i] = "weather"]
             /\ UNCHANGED resp

\* The HTTPS lookup of request i returns.
ConcCepHttpsAnswer(i) ==
    /\ pc[i] = "cep_https"
    /\ \E ans \in ConcLocationAnswers :
        /\ answers' = [answers EXCEPT ![i] = Append(@, ans)]
        /\ IF transportFailed(ans)
           THEN /\ calls' = [calls EXCEPT ![i] = Append(@, cepURL("http", formattedCEPOf(i)))]
                /\ pc' = [pc EXCEPT ![i] = "cep_http"]
                /\ UNCHANGED <<cepData, resp>>
           ELSE ConcLocationDone(i, ans)
    /\ UNCHANGED <<method, path, cep, formattedCEP, valid, formattedTwice, tempCStr,
                   weather, httpClient>>

\* The HTTP lookup of request i returns.
ConcCepHttpAnswer(i) ==
    /\ pc[i] = "cep_http"
    /\ \E ans \in ConcLocationAnswers :
        /\ answers' = [answers EXCEPT ![i] = Append(@, ans)]
        /\ IF transportFailed(ans)
           THEN /\ resp' = [resp EXCEPT
                              ![i] = writeError(InternalError.Code, InternalError.Message)]
                /\ pc' = [pc EXCEPT ![i] = "done"]
                /\ UNCHANGED <<calls, cepData>>
           ELSE ConcLocationDone(i, ans)
    /\ UNCHANGED <<method, path, cep, formattedCEP, valid, formattedTwice, tempCStr,
                   weather, httpClient>>

\* The weather request of request i returns and its response is written.
ConcWeatherAnswer(i) ==
    /\ pc[i] = "weather"
    /\ \E ans \in ConcWeatherAnswers :
        LET r == decodeWeather(ans)
        IN  /\ answers' = [answers EXCEPT ![i] = Append(@, ans)]
            /\ tempCStr' = [tempCStr EXCEPT ![i] = r.str]
            /\ weather' = [weather EXCEPT ![i] = r.data]
            /\ resp' = [resp EXCEPT
                          ![i] = IF r.err # Nil THEN writeError(r.err.Code, r.err.Message)
                                 ELSE writeWeather(r.data)]
            /\ pc' = [pc EXCEPT ![i] = "done"]
    /\ UNCHANGED <<method, path, cep, formattedCEP, valid, formattedTwice, calls,
                   cepData, httpClient>>

NextConc ==
    \E i \in Reqs :
        \/ ConcAccept(i)
        \/ ConcCepHttpsAnswer(i)
        \/ ConcCepHttpAnswer(i)
        \/ ConcWeatherAnswer(i)

SpecConc == InitConc /\ [][NextConc]_vars

(***************************************************************************)
(* Properties.  The definitions below state what is claimed of the         *)
(* program; they are written apart from the operators above.               *)
(***************************************************************************)
IsNotSeparator(c) == c # "-" /\ c # " "

\* s with every hyphen and space removed.
Stripped(s) == SelectSeq(s, IsNotSeparator)

\* After removing hyphens and spaces: exactly 8 characters, all ASCII digits.
WellFormedCEP(s) ==
    /\ Len(Stripped(s)) = 8
    /\ \A i \in 1..Len(Stripped(s)) : Stripped(s)[i] \in AsciiDigits

OnRoute == HasPrefix(path, PathPrefix)

Remainder == SubSeq(path, Len(PathPrefix) + 1, Len(path))

\* The message of a response whose body is a JSON object with one.
MessageOf(r) ==
    IF r.body.kind = "object" /\ "message" \in DOMAIN r.body THEN r.body.message ELSE ""

Responded(code, message) ==
    /\ resp # Nil
    /\ resp.status = code
    /\ MessageOf(resp) = message

CepCalls == {i \in 1..Len(calls) : calls[i].host = "viacep.com.br"}

WttrCalls == {i \in 1..Len(calls) : calls[i].host = "wttr.in"}

\* Every lookup request issued so far has been answered.
LocationSettled == CepCalls # {} /\ Len(answers) >= Cardinality(CepCalls)

FinalLocationAnswer == answers[Cardinality(CepCalls)]

\* The answer is a response with status 200 and a body that parses as JSON.
ParsedOK(a) == a.err = "" /\ a.status = 200 /\ a.body.kind = "json"

\* The lookup answered with a record and no "not found" sentinel.
FoundAnswer(a) == ParsedOK(a) /\ a.body.erro \in {"absent", "null"}

\* C1: the handler's checks run in the order method, path prefix, empty
\* code, validation and lookup, weather; the first failing check decides the
\* response, and 200 is written only when every stage succeeded.
C1_CheckOrder ==
    /\ pc = "done" => resp # Nil
    /\ pc \in {"cep_https", "cep_http", "weather"} => resp = Nil
    /\ resp # Nil =>
        /\ method # "GET" => Responded(405, "method not allowed")
        /\ method = "GET" /\ ~OnRoute => Responded(404, "endpoint not found")
        /\ method = "GET" /\ OnRoute /\ Remainder = <<>>
            => Responded(400, "cep parameter is required")
        /\ method = "GET" /\ OnRoute /\ Remainder # <<>> /\ ~WellFormedCEP(Remainder)
            => Responded(422, "invalid zipcode")
        /\ resp.status = 200 =>
            /\ method = "GET" /\ OnRoute /\ Remainder # <<>> /\ WellFormedCEP(Remainder)
            /\ LocationSettled /\ FoundAnswer(FinalLocationAnswer)
            /\ WttrCalls # {} /\ Len(answers) = Len(calls)
            /\ ParsedOK(answers[Len(answers)])
            /\ weather # Nil

C1_Witness ==
    /\ pc = "done" /\ method = "POST" /\ ~OnRoute
    /\ Responded(405, "method not allowed")

\* C2: isValidCEP(s) is true exactly when s without hyphens and spaces is 8
\* characters long, all of them ASCII digits.
C2_ValidatorIff ==
    pc \in {"cep_validated", "cep_formatted", "cep_done"} => (valid <=> WellFormedCEP(cep))

C2_Witness == pc = "cep_validated" /\ valid /\ Len(cep) > 8

\* The "not found" sentinel is present and truthy.
Truthy(j) == j \in {"true", "\"true\""}

\* C3: searchCEP reports 404 "can not find zipcode" exactly when the lookup
\* answered 200 with a parseable body whose sentinel is present and truthy;
\* with the sentinel absent or not truthy the record is returned, city and
\* state unchanged.
C3_NotFoundIffTruthy ==
    (pc \in {"weather", "done"} /\ LocationSettled) =>
        /\ Responded(404, "can not find zipcode")
            <=> (ParsedOK(FinalLocationAnswer) /\ Truthy(FinalLocationAnswer.body.erro))
        /\ (ParsedOK(FinalLocationAnswer) /\ ~Truthy(FinalLocationAnswer.body.erro)) =>
            /\ cepData # Nil
            /\ cepData.Localidade = FinalLocationAnswer.body.localidade
            /\ cepData.UF = FinalLocationAnswer.body.uf

\* C4: every response carries Content-Type application/json and a JSON
\* body: an object with a message on failure, the three temperatures on 200.
C4_JsonResponses ==
    resp # Nil =>
        /\ resp.contentType = "application/json"
        /\ resp.status \in {200, 400, 404, 405, 422, 500}
        /\ resp.body.kind = "object"
        /\ IF resp.status = 200
           THEN {"temp_C", "temp_F", "temp_K"} \subseteq DOMAIN resp.body
           ELSE "message" \in DOMAIN resp.body

\* A decimal numeral: an optional sign, then digits with at most one
\* decimal point and at least one digit.
IsDecimalNumeral(s) ==
    LET body == IF s # <<>> /\ s[1] \in {"+", "-"} THEN Tail(s) ELSE s
    IN  /\ \A i \in 1..Len(body) : body[i] \in AsciiDigits \cup {"."}
        /\ Cardinality({i \in 1..Len(body) : body[i] = "."}) <= 1
        /\ \E i \in 1..Len(body) : body[i] \in AsciiDigits

\* The weather request was issued and has been answered.
WeatherSettled == pc = "done" /\ WttrCalls # {} /\ Len(answers) = Len(calls)

WeatherAnswerOf == answers[Len(answers)]

\* C5: every failure of getWeatherData is a 500: "internal server error"
\* for a transport failure, a non-200 status, an unreadable or unparseable
\* body and an absent, empty or non-numeric Celsius string; "weather data
\* not available" exactly when the body parses and its list is empty.
C5_WeatherFailures ==
    WeatherSettled =>
        /\ ~ParsedOK(WeatherAnswerOf) => Responded(500, "internal server error")
        /\ (/\ ParsedOK(WeatherAnswerOf)
            /\ WeatherAnswerOf.body.current_condition # <<>>
            /\ ~IsDecimalNumeral(WeatherAnswerOf.body.current_condition[1].temp_C))
            => Responded(500, "internal server error")
        /\ Responded(500, "weather data not available")
            <=> (ParsedOK(WeatherAnswerOf) /\ WeatherAnswerOf.body.current_condition = <<>>)
        /\ resp.status \in {200, 500}

\* C6: for the Celsius value C parsed from the string, the record holds
\* temp_C = C, temp_F = C*9/5+32 and temp_K = C+273.15 with no rounding (NaN
\* and the infinities propagate), and the 200 body carries the same values.
C6_Conversions ==
    weather # Nil =>
        /\ weather.temp_C = ParseFloat(tempCStr).f
        /\ IF weather.temp_C.k = "fin"
           THEN /\ weather.temp_F.k = "fin" /\ weather.temp_K.k = "fin"
                /\ 5 * weather.temp_F.v = 9 * weather.temp_C.v + 160 * Scale
                /\ 100 * (weather.temp_K.v - weather.temp_C.v) = 27315 * Scale
                /\ pc = "temp_done" =>
                    /\ resp.body.temp_C = weather.temp_C
                    /\ resp.body.temp_F = weather.temp_F
                    /\ resp.body.temp_K = weather.temp_K
           ELSE weather.temp_F = weather.temp_C /\ weather.temp_K = weather.temp_C

C6_Witness ==
    /\ pc = "temp_done"
    /\ tempCStr = <<"2", ".", "5">>
    /\ 10 * weather.temp_F.v = 365 * Scale
    /\ 100 * weather.temp_K.v = 27565 * Scale

\* C7: every lookup request is built from the raw code with hyphens and
\* spaces removed, which is 8 ASCII digits; a raw code that differs from
\* this one only in hyphens and spaces yields the same first request.
C7_LookupOnNormalized ==
    /\ \A i \in CepCalls :
        /\ calls[i].path = <<"/ws/">> \o Stripped(cep) \o <<"/json/">>
        /\ calls[i].scheme \in {"https", "http"}
        /\ WellFormedCEP(cep)
    /\ pc = "cep_https" =>
        \A c \in MainCodes :
            Stripped(c) = Stripped(cep)
                => handlerEntry(method, PathPrefix \o c).call = calls[1]

C7_Witness ==
    /\ pc = "cep_http" /\ Len(cep) = 9
    /\ \E i \in 1..Len(cep) : cep[i] = "-"
    /\ calls[1].path = calls[2].path

\* C8: formatCEP(formatCEP(x)) = formatCEP(x), and the result holds no
\* hyphen and no space.
C8_Idempotent ==
    pc = "cep_done" =>
        /\ formattedTwice = formattedCEP
        /\ \A i \in 1..Len(formattedCEP) : formattedCEP[i] \notin {"-", " "}

C8_Witness == pc = "cep_done" /\ Len(cep) = Len(formattedCEP) + 2

\* The percent-encoding of a city or state inside the weather URL: a space
\* has become "+" and is sent as %2B.
EncodedChar(c) ==
    IF c = " " THEN <<"%2B">> ELSE IF c = "u00E3" THEN <<"%C3", "%A3">> ELSE <<c>>

RECURSIVE Encoded(_)
Encoded(s) == IF s = <<>> THEN <<>> ELSE EncodedChar(Head(s)) \o Encoded(Tail(s))

\* C9: no outbound call without the method, path, non-empty and validator
\* checks passed; the weather call comes only after a lookup that found a
\* record, carries that record's city and state, and is made at most once;
\* after a failed lookup there is no weather call.
C9_CallGating ==
    /\ calls # <<>> =>
        method = "GET" /\ OnRoute /\ Remainder # <<>> /\ WellFormedCEP(Remainder)
    /\ Cardinality(WttrCalls) <= 1
    /\ \A i \in WttrCalls :
        /\ i = Len(calls) /\ i > 1 /\ Len(answers) >= i - 1
        /\ calls[i - 1].host = "viacep.com.br"
        /\ FoundAnswer(answers[i - 1])
        /\ calls[i].path = <<"/">> \o Encoded(answers[i - 1].body.localidade) \o <<"%2C">>
                           \o Encoded(answers[i - 1].body.uf) \o <<"%2C", "Brazil">>
    /\ (LocationSettled /\ ~FoundAnswer(FinalLocationAnswer)) => WttrCalls = {}
    /\ Len(answers) <= Len(calls) /\ Len(calls) <= Len(answers) + 1

C9_Witness ==
    /\ pc = "weather" /\ Len(calls) = 3
    /\ cepData # Nil /\ cepData.Localidade = <<"S", "u00E3", "o", " ", "P">>
    /\ calls[3].path = <<"/", "S", "%C3", "%A3", "o", "%2B", "P", "%2C", "R", "J", "%2C", "Brazil">>

\* C10: the first lookup goes over HTTPS; one fallback over HTTP is made
\* exactly when the first attempt failed at transport level; at most two
\* lookups are made; a fallback that fails at transport level too yields
\* 500 "internal server error".
C10_SingleFallback ==
    /\ Cardinality(CepCalls) <= 2
    /\ CepCalls # {} => calls[1].scheme = "https" /\ 1 \in CepCalls
    /\ 2 \in CepCalls <=> (answers # <<>> /\ answers[1].err # "")
    /\ 2 \in CepCalls => calls[2].scheme = "http"
    /\ (2 \in CepCalls /\ Len(answers) >= 2 /\ answers[2].err # "")
        => (pc = "done" /\ Len(calls) = 2 /\ Responded(500, "internal server error"))

C10_Witness ==
    /\ pc = "done" /\ Len(calls) = 2
    /\ answers[1].err = "timeout" /\ answers[2].err = "dial"
    /\ Responded(500, "internal server error")

\* C11: every request ends with exactly one response: a request that is
\* not finished can take a step, a response exists exactly when the request
\* is finished, its status is one of 200, 400, 404, 405, 422 and 500, every
\* call issued has been answered, and the response is whole (a status with
\* its JSON body), never a partial one.
C11_OneWholeResponse ==
    /\ pc = "done" \/ ENABLED Next
    /\ pc = "done" <=> resp # Nil
    /\ resp # Nil =>
        /\ resp.status \in {200, 400, 404, 405, 422, 500}
        /\ Len(answers) = Len(calls)
        /\ resp.body.kind = "object"

\* C11, the part about termination: under FairSpec a request that was
\* accepted reaches its end, a response once written is never written again,
\* and no step follows the end of the request.
C11_Terminates ==
    /\ (pc # "idle") ~> (pc = "done")
    /\ [][resp # Nil => resp' = resp]_vars
    /\ [][pc # "done"]_vars

\* A request handled alone: the handler's state after it received the
\* answers one after the other.
SoloStart(m, p) ==
    LET h == handlerEntry(m, p)
    IN  [pc |-> IF h.call = Nil THEN "done" ELSE "cep_https",
         calls |-> IF h.call = Nil THEN <<>> ELSE <<h.call>>,
         formatted |-> h.formatted,
         resp |-> h.resp]

SoloLocation(s, a) ==
    LET r == decodeCEP(a)
    IN  IF r.err # Nil
        THEN [s EXCEPT !.pc = "done", !.resp = writeError(r.err.Code, r.err.Message)]
        ELSE [s EXCEPT !.pc = "weather",
                       !.calls = Append(@, weatherURL(r.data.Localidade, r.data.UF))]

SoloStep(s, a) ==
    IF s.pc = "cep_https" THEN
        IF a.err # ""
        THEN [s EXCEPT !.pc = "cep_http", !.calls = Append(@, cepURL("http", s.formatted))]
        ELSE SoloLocation(s, a)
    ELSE IF s.pc = "cep_http" THEN
        IF a.err # ""
        THEN [s EXCEPT !.pc = "done", !.resp = writeError(500, "internal server error")]
        ELSE SoloLocation(s, a)
    ELSE IF s.pc = "weather" THEN
        LET r == decodeWeather(a)
        IN  [s EXCEPT !.pc = "done",
                      !.resp = IF r.err # Nil THEN writeError(r.err.Code, r.err.Message)
                               ELSE writeWeather(r.data)]
    ELSE s

RECURSIVE SoloRun(_, _)
SoloRun(s, as) == IF as = <<>> THEN s ELSE SoloRun(SoloStep(s, Head(as)), Tail(as))

\* C12: under every interleaving each request is where it would be if
\* handled alone with the same answers (same position, same outbound calls,
\* same response), and the shared client configuration is the one set at
\* process initialization.
C12_NoInterference ==
    /\ httpClient = HttpClientConfig
    /\ \A i \in Reqs :
        pc[i] # "idle" =>
            LET s == SoloRun(SoloStart(method[i], path[i]), answers[i])
            IN  /\ pc[i] = s.pc
                /\ calls[i] = s.calls
                /\ resp[i] = s.resp

C12_Witness ==
    /\ pc[1] = "cep_http" /\ pc[2] = "weather"
    /\ formattedCEP[1] # formattedCEP[2]
    /\ answers[2][1].err = "timeout"

====
